---- MODULE Spec2Model ----
(***************************************************************************)
(* A model of predict_location_NLG.py (talkthewalk): the training loop     *)
(* with early stopping (TrainLanguageGenerator.train), the trajectory      *)
(* segmenter (load_data) and the batch assembler (create_batch).           *)
(*                                                                         *)
(* Three specifications share the module, one per subsystem:               *)
(*   SpecTrain / FairSpecTrain   train()                                   *)
(*   SpecLoad                    load_data()                               *)
(*   SpecBatch                   create_batch()                            *)
(* The variables of the other subsystems stay at their initial values.     *)
(***************************************************************************)
EXTENDS Integers, Sequences, FiniteSets, TLC

(***************************************************************************)
(* Bounds of the model.                                                    *)
(***************************************************************************)
MaxEpochs == 5       \* largest configured epoch budget (--num-epochs)
MaxPatience == 3     \* largest configured patience (--valid-patience)
MaxTrain == 2        \* largest number of training examples
MaxBsz == 2          \* largest mini-batch size (--bsz)

\* the validation losses eval_epoch() may return
LossValues == {3, 4, 5}

\* float('inf'): larger than every loss
Inf == (CHOOSE m \in LossValues : \A x \in LossValues : x <= m) + 1

\* num_epochs=None
NoneArg == -1

MaxRead == 4         \* largest number of dataset items (dialogues and their turns) read
MaxNumSteps == 2     \* largest configured context length (--num-steps)
GridMax == 1         \* the grid of a neighborhood is 0..GridMax x 0..GridMax

MaxBatch == 3        \* largest number of examples given to create_batch
MaxSrcLen == 3       \* largest length of a trajectory in a batch
MaxTrgLen == 2       \* largest length of a target in a batch

MaxLandmarks == 12   \* largest landmark vocabulary given to ActionObservationDictionary
MaxActions == 4      \* largest action list given to ActionObservationDictionary

VARIABLES
    \* ---- train() ----
    tpc,                 \* position in train(): "init", "loop", "batch", "done"
    self_num_epochs,     \* self.num_epochs
    self_valid_patience, \* self.valid_patience (the threshold)
    self_bsz,            \* self.bsz
    train_size,          \* len(self.train_data[0])
    num_epochs,          \* the local num_epochs of train()
    epoch_num,           \* number of epochs started so far (the loop index)
    jj,                  \* offset of the next mini-batch
    best_valid,          \* best_valid
    valid_patience,      \* valid_patience (the counter)
    valid_losses,        \* the validation losses eval_epoch() returned in the loop, in order
    n_updates,           \* optim.step() calls of the current epoch
    n_eval_updates,      \* optim.step() calls made inside eval_epoch / eval_test
    n_saves,             \* save_model() calls
    n_test_reports,      \* eval_test() calls followed by the 'Test Loss' print
    done_paths,          \* the terminal branches taken: "patience", "budget"
    \* ---- load_data() ----
    lpc,                 \* position in load_data(): "idle", "build", "done", and
                         \* "killed" (the process ended while saving), "failed" (the call raised)
    args_num_steps,      \* args.num_steps
    temp_build,          \* the temp_build argument of the running call
    cache_exists,        \* os.path.exists(dataset_path)
    cache_files,         \* the arrays in Xs.json, tourist_locs.json, landmarks.json, ys.json
    dataset,             \* the dialogues read so far: [start_location, dialog]
    loc,                 \* loc
    act_obs_memory,      \* act_obs_memory
    Xs,                  \* Xs
    tourist_locs,        \* tourist_locs
    landmarks,           \* landmarks
    ys,                  \* ys
    emitted_at,          \* history: the <<dialogue, turn>> at which each entry of Xs was emitted
    ret,                 \* the value the call returned
    n_read,              \* dataset items (dialogues, turns) read so far
    feature_loaders,     \* self.feature_loaders of the run that makes the call: the enabled sources
    cache_features,      \* history: the feature_loaders of the run that wrote the cache
    from_cache,          \* history: the last call returned the arrays it loaded (line 234)
    partial_file,        \* the file after those of cache_files exists with part of its text
    \* ---- create_batch() ----
    bpc,                      \* position in create_batch(): "input", "done"
    in_Xs,                    \* the argument Xs
    in_tourist_locs,          \* the argument tourist_locs
    in_ys,                    \* the argument ys
    sorted_indices,           \* sorted_indices, counted from 1
    sorted_X_batch,           \* sorted_X_batch
    sorted_mask,              \* sorted_mask
    sorted_tourist_loc_batch, \* sorted_tourist_loc_batch
    sorted_y_batch,           \* sorted_y_batch
    ret_seq_lens,             \* the returned sorted(seq_lens, reverse=True)
    sorted_y_lens,            \* sorted_y_lens
    max_y_len,                \* max_y_len
    \* ---- ActionObservationDictionary ----
    vpc,                 \* position in __init__: "new", "built"
    arg_landmarks,       \* the argument landmarks
    arg_actions,         \* the argument actions
    self_pad_idx,        \* self.pad_idx
    self_start_idx,      \* self.start_idx
    self_end_idx,        \* self.end_idx
    self_unk_idx,        \* self.unk_idx
    tok2i                \* self.tok2i

trainVars == <<tpc, self_num_epochs, self_valid_patience, self_bsz, train_size,
               num_epochs, epoch_num, jj, best_valid, valid_patience, valid_losses,
               n_updates, n_eval_updates, n_saves, n_test_reports, done_paths>>

loadVars == <<lpc, args_num_steps, temp_build, cache_exists, cache_files, dataset, loc,
              act_obs_memory, Xs, tourist_locs, landmarks, ys, emitted_at, ret,
              n_read, feature_loaders, cache_features, from_cache, partial_file>>

batchVars == <<bpc, in_Xs, in_tourist_locs, in_ys, sorted_indices, sorted_X_batch,
               sorted_mask, sorted_tourist_loc_batch, sorted_y_batch, ret_seq_lens,
               sorted_y_lens, max_y_len>>

vocabVars == <<vpc, arg_landmarks, arg_actions, self_pad_idx, self_start_idx, self_end_idx,
               self_unk_idx, tok2i>>

vars == <<trainVars, loadVars, batchVars, vocabVars>>

\* what train(), load_data(), create_batch() and the dictionary each leave alone
notTrainVars == <<loadVars, batchVars, vocabVars>>
notLoadVars == <<trainVars, batchVars, vocabVars>>
notBatchVars == <<trainVars, loadVars, vocabVars>>
notVocabVars == <<trainVars, loadVars, batchVars>>

(***************************************************************************)
(* train()                                                                 *)
(***************************************************************************)

\* the values the num_epochs argument of train() is called with
NumEpochsArgs == {NoneArg, 1}

\* the state of the trainer when train() is called
InitTrain ==
    /\ tpc = "init"
    /\ self_num_epochs \in 0..MaxEpochs
    /\ self_valid_patience \in -1..MaxPatience
    /\ self_bsz \in 1..MaxBsz
    /\ train_size \in 1..MaxTrain
    /\ num_epochs = NoneArg
    /\ epoch_num = 0
    /\ jj = 0
    /\ best_valid = Inf
    /\ valid_patience = 0
    /\ valid_losses = <<>>
    /\ n_updates = 0
    /\ n_eval_updates = 0
    /\ n_saves = 0
    /\ n_test_reports = 0
    /\ done_paths = {}

\* lines 338-347: the prologue of train(num_epochs=arg)
TrainBegin(arg) ==
    /\ tpc = "init"
    /\ num_epochs' = IF arg = NoneArg THEN self_num_epochs ELSE arg
    /\ best_valid' = Inf
    /\ valid_patience' = 0
    /\ epoch_num' = 0
    /\ tpc' = "loop"
    /\ UNCHANGED <<self_num_epochs, self_valid_patience, self_bsz, train_size, jj,
                   valid_losses, n_updates, n_eval_updates, n_saves, n_test_reports,
                   done_paths>>
    /\ UNCHANGED notTrainVars

\* line 348: for epoch_num in range(self.num_epochs)
LoopBoundOffByOne == epoch_num <= self_num_epochs
LoopContinues == epoch_num < self_num_epochs

\* lines 348-351: the next epoch starts (shuffle, counters reset)
EpochBegin ==
    /\ tpc = "loop"
    /\ LoopContinues
    /\ epoch_num' = epoch_num + 1
    /\ jj' = 0
    /\ n_updates' = 0
    /\ tpc' = "batch"
    /\ UNCHANGED <<self_num_epochs, self_valid_patience, self_bsz, train_size,
                   num_epochs, best_valid, valid_patience, valid_losses,
                   n_eval_updates, n_saves, n_test_reports, done_paths>>
    /\ UNCHANGED notTrainVars

\* line 352: for jj in range(0, len(Xs), self.bsz)
NextOffsetByOne(j) == j + 1
NextOffset(j) == j + self_bsz

\* lines 352-379: one mini-batch: create_batch, forward, zero_grad, backward, step
TrainBatch ==
    /\ tpc = "batch"
    /\ jj < train_size
    /\ n_updates' = n_updates + 1
    /\ jj' = NextOffset(jj)
    /\ UNCHANGED <<tpc, self_num_epochs, self_valid_patience, self_bsz, train_size,
                   num_epochs, epoch_num, best_valid, valid_patience, valid_losses,
                   n_eval_updates, n_saves, n_test_reports, done_paths>>
    /\ UNCHANGED notTrainVars

\* line 383: if valid_loss < best_valid
ImprovedOrEqual(valid_loss) == valid_loss <= best_valid
Improved(valid_loss) == valid_loss < best_valid

\* line 386: valid_patience = 0
CounterNotReset == valid_patience
CounterAfterImprovement == 0

\* line 390: if valid_patience == self.valid_patience
PatienceExhausted(counter) == counter = self_valid_patience

\* line 395: return
PatienceFallsThrough == "loop"
PatienceStopPc == "done"

\* lines 380-395: the end of an epoch: eval_epoch(), lr_scheduler.step, the
\* early-stopping comparison, and on exhausted patience save_model(), eval_test(), return
EpochEnd(valid_loss) ==
    /\ tpc = "batch"
    /\ jj >= train_size
    /\ valid_losses' = Append(valid_losses, valid_loss)
    /\ IF Improved(valid_loss)
       THEN /\ best_valid' = valid_loss
            /\ valid_patience' = CounterAfterImprovement
            /\ tpc' = "loop"
            /\ UNCHANGED <<n_saves, n_test_reports, done_paths>>
       ELSE /\ best_valid' = best_valid
            /\ valid_patience' = valid_patience + 1
            /\ IF PatienceExhausted(valid_patience + 1)
               THEN /\ n_saves' = n_saves + 1
                    /\ n_test_reports' = n_test_reports + 1
                    /\ done_paths' = done_paths \cup {"patience"}
                    /\ tpc' = PatienceStopPc
               ELSE /\ tpc' = "loop"
                    /\ UNCHANGED <<n_saves, n_test_reports, done_paths>>
    /\ UNCHANGED <<self_num_epochs, self_valid_patience, self_bsz, train_size,
                   num_epochs, epoch_num, jj, n_updates, n_eval_updates>>
    /\ UNCHANGED notTrainVars

\* line 401: test_loss = self.eval_test() and its report
BudgetSkipsTest == n_test_reports
BudgetTestReports == n_test_reports + 1

\* lines 397-402: the loop ran out of epochs: save_model(), eval_epoch(), eval_test()
BudgetExhausted ==
    /\ tpc = "loop"
    /\ ~LoopContinues
    /\ n_saves' = n_saves + 1
    /\ n_test_reports' = BudgetTestReports
    /\ done_paths' = done_paths \cup {"budget"}
    /\ tpc' = "done"
    /\ UNCHANGED <<self_num_epochs, self_valid_patience, self_bsz, train_size,
                   num_epochs, epoch_num, jj, best_valid, valid_patience,
                   valid_losses, n_updates, n_eval_updates>>
    /\ UNCHANGED notTrainVars

\* the steps of train()
TrainStep ==
    \/ \E arg \in NumEpochsArgs : TrainBegin(arg)
    \/ EpochBegin
    \/ TrainBatch
    \/ \E valid_loss \in LossValues : EpochEnd(valid_loss)
    \/ BudgetExhausted

\* the trainer with the defaults of setup_args, train() not called
TrainIdle ==
    /\ tpc = "init"
    /\ self_num_epochs = 500
    /\ self_valid_patience = 5
    /\ self_bsz = 64
    /\ train_size = 1
    /\ num_epochs = NoneArg
    /\ epoch_num = 0
    /\ jj = 0
    /\ best_valid = Inf
    /\ valid_patience = 0
    /\ valid_losses = <<>>
    /\ n_updates = 0
    /\ n_eval_updates = 0
    /\ n_saves = 0
    /\ n_test_reports = 0
    /\ done_paths = {}

(***************************************************************************)
(* The action/observation vocabulary                                       *)
(***************************************************************************)

\* len(self.landmark_map.itos), the n_lands given to Seq2Seq
NumLandmarks == 11
\* len([1, 2, 3]), the n_acts given to Seq2Seq
NumActions == 3

\* ActionObservationDictionary.__init__
pad_idx == NumLandmarks + NumActions
start_idx == pad_idx + 1
end_idx == start_idx + 1
unk_idx == end_idx + 1

(***************************************************************************)
(* The elements of a trajectory.  An element is an int (an action token,   *)
(* the end marker, a pad) or an observation bundle; dlg and turn record    *)
(* the dialogue and the turn that appended it (0 for markers).             *)
(***************************************************************************)
IntElem(n, d, t) ==
    [kind |-> "int", v |-> n, loc |-> <<>>, dlg |-> d, turn |-> t, feats |-> {},
     rounded |-> FALSE]

\* obs_emb: the features of every loader of feature_loaders at location l
\* rounded: the feature values are no longer the floats the loaders gave
ObsElem(l, d, t) ==
    [kind |-> "obs", v |-> 0, loc |-> l, dlg |-> d, turn |-> t, feats |-> feature_loaders,
     rounded |-> FALSE]

\* self.action_obs_dict.tok2i[END_TOKEN]
EndElem == IntElem(end_idx, 0, 0)

(***************************************************************************)
(* Collaborators of load_data (data_loader.py, dict.py)                    *)
(***************************************************************************)

\* get_action: the action of a message text, NoAct for None
NoAct == 0
get_action_by_prefix(text) ==
    CASE text = "ACTION:TURNLEFT" -> 1
      [] text = "ACTION:TURNRIGHT" -> 2
      [] text = "hello" -> NoAct
      [] OTHER -> 3
get_action(text) ==
    CASE text = "ACTION:TURNLEFT" -> 1
      [] text = "ACTION:TURNRIGHT" -> 2
      [] text = "ACTION:FORWARD" -> 3
      [] OTHER -> NoAct

\* config['boundaries']: min_x, min_y, max_x, max_y
Boundaries == <<0, 0, GridMax, GridMax>>

\* the unit step of each orientation: N, E, S, W
StepOf(o) == CASE o = 0 -> <<0, 1>> [] o = 1 -> <<1, 0>> [] o = 2 -> <<0, -1>> [] OTHER -> <<-1, 0>>

\* step_aware(act, loc, boundaries): turn left, turn right, or one step forward
\* when the step stays inside the boundaries
step_aware(act, l, b) ==
    CASE act = 1 -> <<l[1], l[2], (l[3] + 3) % 4>>
      [] act = 2 -> <<l[1], l[2], (l[3] + 1) % 4>>
      [] act = 3 ->
            LET nx == l[1] + StepOf(l[3])[1]
                ny == l[2] + StepOf(l[3])[2]
            IN  IF b[1] <= nx /\ nx <= b[3] /\ b[2] <= ny /\ ny <= b[4]
                THEN <<nx, ny, l[3]>>
                ELSE l
      [] OTHER -> l

\* landmark_map.get_landmarks_2d(neighborhood, boundaries, loc): the landmarks of
\* the corner and the coordinate of the tourist relative to the boundaries
get_landmarks_2d(b, l) ==
    [ls |-> <<l[1], l[2]>>, tourist_loc |-> <<l[1] - b[1], l[2] - b[2]>>]

\* self.dictionary.encode(text, include_end=True): the word ids, then the end token
DictEnd == 2
WordOf(text) == IF text = "hello" THEN 10 ELSE 11
encode(text) == <<WordOf(text), DictEnd>>

\* the turns a dialogue is made of
TouristTexts == {"ACTION:TURNLEFT", "ACTION:TURNRIGHT", "ACTION:FORWARD",
                 "hello", "ACTION:BACKWARD"}
Msgs == [id : {"Tourist"}, text : TouristTexts] \cup [id : {"Guide"}, text : {"hello"}]

\* config['start_location']
StartLocations == {<<0, 0, 0>>, <<GridMax, 0, 3>>}

(***************************************************************************)
(* load_data()                                                             *)
(***************************************************************************)

\* line 120: self.contextlen = args.num_steps if args.num_steps >= 0 else None
NoneLen == -1
contextlen == IF args_num_steps >= 0 THEN args_num_steps ELSE NoneLen

\* deque.append on a deque(maxlen=maxlen): a full deque drops its oldest element
DequeAppendUnbounded(q, x, maxlen) == Append(q, x)
DequeAppend(q, x, maxlen) ==
    IF maxlen = NoneLen THEN Append(q, x)
    ELSE IF maxlen = 0 THEN q
    ELSE IF Len(q) >= maxlen THEN Append(Tail(q), x)
    ELSE Append(q, x)

\* line 240: act_obs_memory = deque(maxlen=self.contextlen), once per dialogue
WindowCarriedOver(mem) == mem
FreshWindow(mem) == <<>>

\* line 262: act_obs_memory.clear()
WindowNotCleared(mem) == mem
WindowAfterEmit(mem) == <<>>

\* line 266: if act == 2:  # went forward
WentForward(act) == act = 2

\* lines 95-96, 215-221: the two sources set_defaults turns on, which the
\* store_true options of lines 67 and 69 cannot turn off
DefaultFeatures == {"resnet", "goldstandard"}

\* lines 208-221: the sources of a run: the defaults, with fasttext when
\* --fasttext-features is given
FeatureCombos == {DefaultFeatures, DefaultFeatures \cup {"fasttext"}}

\* lines 147-160, 228: the dataset_name __init__ gives load_data for the split,
\* whatever the feature loaders fl of the run; dataset_path is made of it
DatasetName(fl) == "train_gold+resnet"

\* line 229: os.path.exists(dataset_path) and not temp_build; the directory on
\* disk is the one the run with cache_features made
CacheHit(tb, fl) ==
    /\ cache_exists
    /\ DatasetName(cache_features) = DatasetName(fl)
    /\ ~tb

\* line 284: the file each of the four arrays is written to, in the order of data
SavedNames == <<"Xs", "tourist_locs", "landmarks", "ys">>

\* line 231: the files a cached call reads, in the order of the list it returns
LoadedNames == <<"Xs", "tourist_locs", "landmarks", "ys">>

\* the sources whose features are floats: image and word embeddings
FloatSources == {"resnet", "fasttext"}

\* lines 3, 287: json is ujson, which writes a float with a bounded number of
\* decimals.  An int is written as it is; an observation bundle with float
\* features is written as it is when the decimals of its floats fit, and
\* rounded when they do not.
ujson_dump_elem(e, fits) ==
    IF e.kind = "obs" /\ e.feats \cap FloatSources /= {} /\ ~fits
    THEN [e EXCEPT !.rounded = TRUE]
    ELSE e

\* lines 284-288: json.dump(data[i], f) for file i of SavedNames.  The arrays are
\* lists of ints, of lists and of dicts with string keys, which JSON writes as
\* arrays, numbers and objects.
DumpFiles(data, fits) ==
    [k \in 1..Len(SavedNames) |->
        IF SavedNames[k] = "Xs"
        THEN [i \in 1..Len(data[k]) |->
                [j \in 1..Len(data[k][i]) |-> ujson_dump_elem(data[k][i][j], fits)]]
        ELSE data[k]]

\* lines 229-233: json.load of each file of LoadedNames, appended to data
FileIndex(name) == CHOOSE k \in 1..Len(SavedNames) : SavedNames[k] = name
LoadFiles(files) == [k \in 1..Len(LoadedNames) |-> files[FileIndex(LoadedNames[k])]]

\* the state of a split before load_data is called on it: no cache
InitLoad ==
    /\ lpc = "idle"
    /\ args_num_steps \in -1..MaxNumSteps
    /\ temp_build = FALSE
    /\ cache_exists = FALSE
    /\ cache_files = <<>>
    /\ dataset = <<>>
    /\ loc = <<0, 0, 0>>
    /\ act_obs_memory = <<>>
    /\ Xs = <<>>
    /\ tourist_locs = <<>>
    /\ landmarks = <<>>
    /\ ys = <<>>
    /\ emitted_at = <<>>
    /\ ret = <<>>
    /\ n_read = 0
    /\ feature_loaders = DefaultFeatures
    /\ cache_features = {}
    /\ from_cache = FALSE
    /\ partial_file = FALSE

\* load_data is called when no call is running: in a new run, after a call
\* returned, or in a later run after the process ended or the call raised
CallStarts == lpc \in {"idle", "done", "killed", "failed"}

\* lines 231-233: each of the four files is there and holds a whole JSON text
CacheComplete == Len(cache_files) = Len(LoadedNames) /\ ~partial_file

\* lines 223-234: the call finds the cache directory and loads the four files
LoadCached(tb, fl) ==
    /\ CallStarts
    /\ CacheHit(tb, fl)
    /\ CacheComplete
    /\ temp_build' = tb
    /\ feature_loaders' = fl
    /\ from_cache' = TRUE
    /\ Xs' = <<>>
    /\ tourist_locs' = <<>>
    /\ landmarks' = <<>>
    /\ ys' = <<>>
    /\ emitted_at' = <<>>
    /\ dataset' = <<>>
    /\ act_obs_memory' = <<>>
    /\ ret' = LoadFiles(cache_files)
    /\ lpc' = "done"
    /\ UNCHANGED <<args_num_steps, cache_exists, cache_files, loc, n_read, cache_features,
                   partial_file>>
    /\ UNCHANGED notLoadVars

\* lines 229-233: the call finds the cache directory, but open() finds a file
\* missing or json.load finds a file that is not a whole JSON text: it raises
LoadBroken(tb, fl) ==
    /\ CallStarts
    /\ CacheHit(tb, fl)
    /\ ~CacheComplete
    /\ temp_build' = tb
    /\ feature_loaders' = fl
    /\ from_cache' = FALSE
    /\ Xs' = <<>>
    /\ tourist_locs' = <<>>
    /\ landmarks' = <<>>
    /\ ys' = <<>>
    /\ emitted_at' = <<>>
    /\ dataset' = <<>>
    /\ act_obs_memory' = <<>>
    /\ ret' = <<>>
    /\ lpc' = "failed"
    /\ UNCHANGED <<args_num_steps, cache_exists, cache_files, loc, n_read, cache_features,
                   partial_file>>
    /\ UNCHANGED notLoadVars

\* lines 223-229, 235: the call finds no cache, or temp_build is set: it builds
BuildBegin(tb, fl) ==
    /\ CallStarts
    /\ ~CacheHit(tb, fl)
    /\ temp_build' = tb
    /\ feature_loaders' = fl
    /\ from_cache' = FALSE
    /\ Xs' = <<>>
    /\ tourist_locs' = <<>>
    /\ landmarks' = <<>>
    /\ ys' = <<>>
    /\ emitted_at' = <<>>
    /\ dataset' = <<>>
    /\ act_obs_memory' = <<>>
    /\ ret' = <<>>
    /\ lpc' = "build"
    /\ UNCHANGED <<args_num_steps, cache_exists, cache_files, loc, n_read, cache_features,
                   partial_file>>
    /\ UNCHANGED notLoadVars

\* lines 236-240: the next dialogue of the dataset
NextConfig(start) ==
    /\ lpc = "build"
    /\ n_read < MaxRead
    /\ n_read' = n_read + 1
    /\ dataset' = Append(dataset, [start_location |-> start, dialog |-> <<>>])
    /\ loc' = start
    /\ act_obs_memory' = FreshWindow(act_obs_memory)
    /\ UNCHANGED <<lpc, args_num_steps, temp_build, cache_exists, cache_files, Xs,
                   tourist_locs, landmarks, ys, emitted_at, ret,
                   feature_loaders, cache_features, from_cache, partial_file>>
    /\ UNCHANGED notLoadVars

\* lines 241-278: one turn of the current dialogue
ProcessMsg(msg) ==
    /\ lpc = "build"
    /\ Len(dataset) > 0
    /\ n_read < MaxRead
    /\ LET d == Len(dataset)
           t == Len(dataset[d].dialog) + 1
           act == get_action(msg.text)
       IN  /\ dataset' = [dataset EXCEPT ![d].dialog = Append(@, msg)]
           /\ n_read' = n_read + 1
           /\ IF msg.id /= "Tourist"
              THEN UNCHANGED <<loc, act_obs_memory, Xs, tourist_locs, landmarks, ys,
                               emitted_at>>
              ELSE IF act = NoAct
              THEN LET y == encode(msg.text)
                       lm == get_landmarks_2d(Boundaries, loc)
                       mem == DequeAppend(act_obs_memory, ObsElem(loc, d, t), contextlen)
                   IN  /\ landmarks' = Append(landmarks, lm.ls)
                       /\ Xs' = Append(Xs, mem \o <<EndElem>>)
                       /\ ys' = Append(ys, y)
                       /\ tourist_locs' = Append(tourist_locs, lm.tourist_loc)
                       /\ emitted_at' = Append(emitted_at, <<d, t>>)
                       /\ act_obs_memory' = WindowAfterEmit(mem)
                       /\ UNCHANGED loc
              ELSE LET newloc == step_aware(act, loc, Boundaries)
                       mem == DequeAppend(act_obs_memory, IntElem(act, d, t), contextlen)
                   IN  /\ loc' = newloc
                       /\ IF WentForward(act)
                          THEN /\ landmarks' =
                                     Append(landmarks, get_landmarks_2d(Boundaries, newloc).ls)
                               /\ act_obs_memory' =
                                     DequeAppend(mem, ObsElem(newloc, d, t), contextlen)
                          ELSE /\ act_obs_memory' = mem
                               /\ UNCHANGED landmarks
                       /\ UNCHANGED <<Xs, tourist_locs, ys, emitted_at>>
    /\ UNCHANGED <<lpc, args_num_steps, temp_build, cache_exists, cache_files, ret,
                   feature_loaders, cache_features, from_cache, partial_file>>
    /\ UNCHANGED notLoadVars

\* lines 280-288: the dataset is exhausted: the four arrays are saved unless
\* temp_build, and returned
FinishBuild(fits) ==
    /\ lpc = "build"
    /\ LET data == <<Xs, tourist_locs, landmarks, ys>>
       IN  /\ IF ~temp_build
              THEN /\ cache_exists' = TRUE
                   /\ cache_files' = DumpFiles(data, fits)
                   /\ cache_features' = feature_loaders
              ELSE UNCHANGED <<cache_exists, cache_files, cache_features>>
           /\ ret' = data
    /\ lpc' = "done"
    /\ UNCHANGED <<args_num_steps, temp_build, dataset, loc, act_obs_memory, Xs,
                   tourist_locs, landmarks, ys, emitted_at, n_read,
                   feature_loaders, from_cache, partial_file>>
    /\ UNCHANGED notLoadVars

\* lines 280-287 cut short: the dataset is exhausted, os.makedirs has made the
\* cache directory, and the process is ended after k of the four files were
\* written: between two files, or during the json.dump of the next one, which
\* leaves that file with part of its text.  The memory of the process is lost.
Interrupt(k, during, fits) ==
    /\ lpc = "build"
    /\ ~temp_build
    /\ LET data == <<Xs, tourist_locs, landmarks, ys>>
       IN  cache_files' = SubSeq(DumpFiles(data, fits), 1, k)
    /\ cache_exists' = TRUE
    /\ cache_features' = feature_loaders
    /\ partial_file' = during
    /\ Xs' = <<>>
    /\ tourist_locs' = <<>>
    /\ landmarks' = <<>>
    /\ ys' = <<>>
    /\ emitted_at' = <<>>
    /\ dataset' = <<>>
    /\ act_obs_memory' = <<>>
    /\ ret' = <<>>
    /\ lpc' = "killed"
    /\ UNCHANGED <<args_num_steps, temp_build, loc, n_read, feature_loaders, from_cache>>
    /\ UNCHANGED notLoadVars

\* the steps of load_data()
LoadStep ==
    \/ \E tb \in BOOLEAN, fl \in FeatureCombos : LoadCached(tb, fl)
    \/ \E tb \in BOOLEAN, fl \in FeatureCombos : BuildBegin(tb, fl)
    \/ \E start \in StartLocations : NextConfig(start)
    \/ \E msg \in Msgs : ProcessMsg(msg)
    \/ \E fits \in BOOLEAN : FinishBuild(fits)

\* the steps of a split whose builds may be cut short by the end of the process
CrashStep ==
    \/ \E k \in 0..(Len(SavedNames) - 1), during, fits \in BOOLEAN :
          Interrupt(k, during, fits)
    \/ \E tb \in BOOLEAN, fl \in FeatureCombos : LoadBroken(tb, fl)

\* a split on which load_data is not called
LoadIdle ==
    /\ lpc = "idle"
    /\ args_num_steps = -1
    /\ temp_build = FALSE
    /\ cache_exists = FALSE
    /\ cache_files = <<>>
    /\ dataset = <<>>
    /\ loc = <<0, 0, 0>>
    /\ act_obs_memory = <<>>
    /\ Xs = <<>>
    /\ tourist_locs = <<>>
    /\ landmarks = <<>>
    /\ ys = <<>>
    /\ emitted_at = <<>>
    /\ ret = <<>>
    /\ n_read = 0
    /\ feature_loaders = DefaultFeatures
    /\ cache_features = {}
    /\ from_cache = FALSE
    /\ partial_file = FALSE

(***************************************************************************)
(* ActionObservationDictionary.__init__                                    *)
(***************************************************************************)

\* a list of n entries: only its length is read
ListOf(n) == [i \in 1..n |-> i]

\* line 47: self.pad_idx = len(landmarks) + len(actions)
PadIdxOfLandmarks(ls, as) == Len(ls)
PadIdxOf(ls, as) == Len(ls) + Len(as)

\* the keys of tok2i: START_TOKEN, END_TOKEN, PAD_TOKEN, UNK_TOKEN
SpecialTokens == {"START_TOKEN", "END_TOKEN", "PAD_TOKEN", "UNK_TOKEN"}

\* the arguments of a construction: lists of 0..MaxLandmarks landmarks and
\* 0..MaxActions actions
InitVocab ==
    /\ vpc = "new"
    /\ arg_landmarks \in {ListOf(n) : n \in 0..MaxLandmarks}
    /\ arg_actions \in {ListOf(n) : n \in 0..MaxActions}
    /\ self_pad_idx = 0
    /\ self_start_idx = 0
    /\ self_end_idx = 0
    /\ self_unk_idx = 0
    /\ tok2i = [t \in SpecialTokens |-> 0]

\* lines 46-54
Construct ==
    /\ vpc = "new"
    /\ LET pad == PadIdxOf(arg_landmarks, arg_actions)
           start == pad + 1
           end == start + 1
           unk == end + 1
       IN  /\ self_pad_idx' = pad
           /\ self_start_idx' = start
           /\ self_end_idx' = end
           /\ self_unk_idx' = unk
           /\ tok2i' = [t \in SpecialTokens |->
                           CASE t = "START_TOKEN" -> start
                             [] t = "END_TOKEN" -> end
                             [] t = "PAD_TOKEN" -> pad
                             [] OTHER -> unk]
    /\ vpc' = "built"
    /\ UNCHANGED <<arg_landmarks, arg_actions>>
    /\ UNCHANGED notVocabVars

\* line 142: the dictionary of a run, built from landmark_map.itos and [1, 2, 3]
VocabIdle ==
    /\ vpc = "built"
    /\ arg_landmarks = ListOf(NumLandmarks)
    /\ arg_actions = <<1, 2, 3>>
    /\ self_pad_idx = pad_idx
    /\ self_start_idx = start_idx
    /\ self_end_idx = end_idx
    /\ self_unk_idx = unk_idx
    /\ tok2i = [t \in SpecialTokens |->
                   CASE t = "START_TOKEN" -> start_idx
                     [] t = "END_TOKEN" -> end_idx
                     [] t = "PAD_TOKEN" -> pad_idx
                     [] OTHER -> unk_idx]

(***************************************************************************)
(* create_batch()                                                          *)
(***************************************************************************)

\* self.dictionary[PAD_TOKEN]
DictPad == 0

\* the largest element of a non-empty sequence of numbers: max(...)
MaxOf(s) == CHOOSE m \in {s[i] : i \in 1..Len(s)} : \A i \in 1..Len(s) : s[i] <= m

\* sorted(s, reverse=True), by insertion
RECURSIVE InsertDesc(_, _)
InsertDesc(s, x) ==
    IF s = <<>> THEN <<x>>
    ELSE IF x > Head(s) THEN <<x>> \o s
    ELSE <<Head(s)>> \o InsertDesc(Tail(s), x)

RECURSIVE SortedDesc(_)
SortedDesc(s) == IF s = <<>> THEN <<>> ELSE InsertDesc(SortedDesc(Tail(s)), Head(s))

\* line 331: sorted(seq_lens, reverse=True)
ReturnedSeqLensUnsorted(seq_lens) == seq_lens
ReturnedSeqLens(seq_lens) == SortedDesc(seq_lens)

\* lines 309-311: the indices torch.sort(..., descending=True) may return: the
\* order of equal lengths is not specified
SortIndices(seq_lens) ==
    {p \in [1..Len(seq_lens) -> 1..Len(seq_lens)] :
        /\ \A i, k \in 1..Len(seq_lens) : i /= k => p[i] /= p[k]
        /\ \A i \in 1..(Len(seq_lens) - 1) : seq_lens[p[i]] >= seq_lens[p[i + 1]]}

\* line 296: the cells X_batch starts with
XFill == IntElem(0, 0, 0)

\* line 312: the cells sorted_X_batch starts with
SortedXFill == IntElem(pad_idx, 0, 0)

\* lines 319, 320, 322: output row i of a grid is row sorted_indices[i] of the input grid
UnsortedRow(grid, idx, i) == grid[i]
SortedRow(grid, idx, i) == grid[idx[i]]

\* line 321: sorted_y_lens.append(y_lens[i])
YLenThroughIndices(y_lens, idx, i) == y_lens[idx[i]]
SortedYLen(y_lens, idx, i) == y_lens[i]

\* line 323: sorted_mask[i, :sorted_seq_lens[i]] = 1.0
MaskRowLenUnsorted(sorted_seq_lens, seq_lens, i) == seq_lens[i]
MaskRowLen(sorted_seq_lens, seq_lens, i) == sorted_seq_lens[i]

\* the trajectory of input example i with l elements: actions and observations
\* in turn, then the end marker; the annotations name the example and the column
ExampleX(i, l) ==
    [j \in 1..l |->
        IF j = l THEN EndElem
        ELSE IF j % 2 = 1 THEN IntElem(1 + (j % NumActions), i, j)
        ELSE ObsElem(<<0, 0, 0>>, i, j)]

\* the target of input example i with m tokens: word ids, then the end token
ExampleY(i, m) == [j \in 1..m |-> IF j = m THEN DictEnd ELSE 10 * i + j]

\* a batch of train(), eval_epoch() or eval_test(): 1..MaxBatch examples
InitBatch ==
    /\ bpc = "input"
    /\ \E n \in 1..MaxBatch :
          \E xl \in [1..n -> 1..MaxSrcLen], yl \in [1..n -> 1..MaxTrgLen] :
              /\ in_Xs = [i \in 1..n |-> ExampleX(i, xl[i])]
              /\ in_ys = [i \in 1..n |-> ExampleY(i, yl[i])]
              /\ in_tourist_locs = [i \in 1..n |-> <<i, 0>>]
    /\ sorted_indices = <<>>
    /\ sorted_X_batch = <<>>
    /\ sorted_mask = <<>>
    /\ sorted_tourist_loc_batch = <<>>
    /\ sorted_y_batch = <<>>
    /\ ret_seq_lens = <<>>
    /\ sorted_y_lens = <<>>
    /\ max_y_len = 0

\* lines 290-333: create_batch(Xs, tourist_locs, ys)
CreateBatch ==
    /\ bpc = "input"
    /\ LET batch_size == Len(in_Xs)
           seq_lens == [i \in 1..batch_size |-> Len(in_Xs[i])]
           y_lens == [i \in 1..batch_size |-> Len(in_ys[i])]
           max_Y == MaxOf(y_lens)
           max_X_len == MaxOf(seq_lens)
           X_batch == [i \in 1..batch_size |->
                          [j \in 1..max_X_len |->
                              IF j <= seq_lens[i] THEN in_Xs[i][j] ELSE XFill]]
           y_batch == [i \in 1..batch_size |->
                          [j \in 1..max_Y |->
                              IF j <= y_lens[i] THEN in_ys[i][j] ELSE DictPad]]
       IN  \E idx \in SortIndices(seq_lens) :
              LET sorted_seq_lens == [i \in 1..batch_size |-> seq_lens[idx[i]]]
              IN  /\ sorted_indices' = idx
                  /\ sorted_X_batch' = [i \in 1..batch_size |-> SortedRow(X_batch, idx, i)]
                  /\ sorted_y_batch' = [i \in 1..batch_size |-> SortedRow(y_batch, idx, i)]
                  /\ sorted_y_lens' = [i \in 1..batch_size |-> SortedYLen(y_lens, idx, i)]
                  /\ sorted_tourist_loc_batch' =
                         [i \in 1..batch_size |-> SortedRow(in_tourist_locs, idx, i)]
                  /\ sorted_mask' = [i \in 1..batch_size |->
                                        [j \in 1..max_X_len |->
                                            IF j <= MaskRowLen(sorted_seq_lens, seq_lens, i)
                                            THEN 1 ELSE 0]]
                  /\ ret_seq_lens' = ReturnedSeqLens(seq_lens)
                  /\ max_y_len' = max_Y
    /\ bpc' = "done"
    /\ UNCHANGED <<in_Xs, in_tourist_locs, in_ys>>
    /\ UNCHANGED notBatchVars

\* the steps of create_batch()
BatchStep ==
    \/ CreateBatch

\* no batch is being assembled
BatchIdle ==
    /\ bpc = "input"
    /\ in_Xs = <<>>
    /\ in_tourist_locs = <<>>
    /\ in_ys = <<>>
    /\ sorted_indices = <<>>
    /\ sorted_X_batch = <<>>
    /\ sorted_mask = <<>>
    /\ sorted_tourist_loc_batch = <<>>
    /\ sorted_y_batch = <<>>
    /\ ret_seq_lens = <<>>
    /\ sorted_y_lens = <<>>
    /\ max_y_len = 0

(***************************************************************************)
(* Specifications                                                          *)
(***************************************************************************)
NextTrain == TrainStep

InitSpecTrain == InitTrain /\ LoadIdle /\ BatchIdle /\ VocabIdle

SpecTrain == InitSpecTrain /\ [][NextTrain]_vars

\* train() runs on one thread and no step of it blocks: it keeps taking steps
FairSpecTrain == SpecTrain /\ WF_vars(NextTrain)

NextLoad == LoadStep

InitSpecLoad == TrainIdle /\ InitLoad /\ BatchIdle /\ VocabIdle

SpecLoad == InitSpecLoad /\ [][NextLoad]_vars

\* load_data() in runs that the end of the process may cut short while saving
NextLoadCrash == LoadStep \/ CrashStep

SpecLoadCrash == InitSpecLoad /\ [][NextLoadCrash]_vars

NextBatch == BatchStep

InitSpecBatch == TrainIdle /\ LoadIdle /\ InitBatch /\ VocabIdle

SpecBatch == InitSpecBatch /\ [][NextBatch]_vars


NextVocab == Construct

InitSpecVocab == TrainIdle /\ LoadIdle /\ BatchIdle /\ InitVocab

SpecVocab == InitSpecVocab /\ [][NextVocab]_vars
(***************************************************************************)
(* Properties of train()                                                   *)
(***************************************************************************)

\* the best validation loss among the first n entries of h (float('inf') when n = 0)
BestOf(h, n) ==
    CHOOSE b \in LossValues \cup {Inf} :
        /\ \A i \in 1..n : b <= h[i]
        /\ (b = Inf \/ \E i \in 1..n : b = h[i])

\* epoch i of h did not improve: its loss is not strictly lower than the best before it
NonImproving(h, i) == h[i] >= BestOf(h, i - 1)

\* the number of consecutive non-improving epochs that end with epoch n of h
Trailing(h, n) ==
    CHOOSE c \in 0..n :
        /\ \A i \in (n - c + 1)..n : NonImproving(h, i)
        /\ (c < n => ~NonImproving(h, n - c))

\* C1: with a patience threshold p >= 1, train() returns through the patience
\* branch exactly at the first epoch whose run of consecutive non-improving
\* validation losses has length p, and at no earlier epoch; for the losses
\* [5, 4, 3, 3, 3] and p = 2 that is the fifth loss.
C1_EarlyStopAtFirstExhaustion ==
    /\ \A n \in 1..Len(valid_losses) :
          (self_valid_patience >= 1 /\ Trailing(valid_losses, n) = self_valid_patience)
              => (n = Len(valid_losses) /\ tpc = "done" /\ "patience" \in done_paths)
    /\ "patience" \in done_paths
          => /\ self_valid_patience >= 1
             /\ Trailing(valid_losses, Len(valid_losses)) = self_valid_patience
    /\ (valid_losses = <<5, 4, 3, 3>> /\ self_valid_patience = 2)
          => "patience" \notin done_paths
    /\ (valid_losses = <<5, 4, 3, 3, 3>> /\ self_valid_patience = 2)
          => (tpc = "done" /\ done_paths = {"patience"})

C1_Witness ==
    /\ valid_losses = <<5, 4, 3, 3, 3>>
    /\ self_valid_patience = 2
    /\ tpc = "done"
    /\ done_paths = {"patience"}

\* C2: the terminal transition (save_model() then the test-loss report) happens
\* exactly once per run, through the patience branch or the budget branch and
\* never both, and nothing is saved before it.
C2_DoneExactlyOnce ==
    /\ n_saves <= 1
    /\ (tpc = "done") <=> (n_saves = 1)
    /\ n_test_reports = n_saves
    /\ Cardinality(done_paths) = n_saves

\* patience runs out on the last epoch of the budget
C2_Witness ==
    /\ tpc = "done"
    /\ done_paths = {"patience"}
    /\ self_num_epochs >= 2
    /\ Len(valid_losses) = self_num_epochs
    /\ n_saves = 1

\* C3: train() terminates: it reaches DONE, with the state saved once and the
\* test loss reported, after at most self.num_epochs epochs.
C3_TrainTerminates ==
    /\ <>(tpc = "done" /\ n_saves = 1 /\ n_test_reports = 1)
    /\ [](Len(valid_losses) <= self_num_epochs /\ epoch_num <= self_num_epochs)

\* a patience threshold that is never reached: the budget ends the run
C3_Witness ==
    /\ tpc = "done"
    /\ self_valid_patience <= 0
    /\ done_paths = {"budget"}
    /\ Len(valid_losses) = self_num_epochs
    /\ self_num_epochs = MaxEpochs
    /\ n_saves = 1
    /\ n_test_reports = 1
\* the number of mini-batches of n examples in batches of b
CeilDiv(n, b) == (n + b - 1) \div b

\* C20: in an epoch the optimizer steps once for each mini-batch, the
\* mini-batches being the consecutive slices of self.bsz examples, so
\* ceil(len(train) / self.bsz) times in a whole epoch; eval_epoch and eval_test
\* make it step never.
C20_OneUpdatePerBatch ==
    /\ n_eval_updates = 0
    /\ tpc = "batch" =>
          /\ n_updates * self_bsz = jj
          /\ jj < train_size + self_bsz
    /\ (\/ (tpc = "batch" /\ jj >= train_size)
        \/ (tpc \in {"loop", "done"} /\ epoch_num >= 1))
          => n_updates = CeilDiv(train_size, self_bsz)

\* the second epoch of a run with a last mini-batch that is not full, after a
\* validation pass
C20_Witness ==
    /\ tpc = "batch"
    /\ jj >= train_size
    /\ self_bsz = 2
    /\ train_size \in {1, 3}
    /\ epoch_num = 2
    /\ Len(valid_losses) = 1
    /\ n_updates = CeilDiv(train_size, self_bsz)

\* C21: after every epoch best_valid is the least validation loss seen so far,
\* so it never goes up, and the patience counter is the number of epochs since
\* the last strict improvement: 0 right after one, a loss equal to the best
\* counting as no improvement.
C21_EarlyStoppingState ==
    /\ [](tpc /= "init" =>
            /\ best_valid = BestOf(valid_losses, Len(valid_losses))
            /\ valid_patience = Trailing(valid_losses, Len(valid_losses)))
    /\ [][/\ best_valid' <= best_valid
          /\ (Len(valid_losses') > Len(valid_losses) /\ best_valid' < best_valid)
                => valid_patience' = 0
          /\ (Len(valid_losses') > Len(valid_losses) /\ best_valid' = best_valid)
                => valid_patience' = valid_patience + 1]_vars

\* an improvement, a loss equal to the best, then a worse one
C21_Witness ==
    /\ tpc = "loop"
    /\ valid_losses = <<5, 3, 3, 4>>
    /\ best_valid = 3
    /\ valid_patience = 2

\* C22: the run executes at most num_epochs epochs, num_epochs being the
\* argument of train() when one is given and self.num_epochs when it is not.
C22_EpochBudgetArgument ==
    tpc /= "init" => epoch_num <= num_epochs

(***************************************************************************)
(* Properties of load_data()                                               *)
(***************************************************************************)

NavCommands == {"ACTION:TURNLEFT", "ACTION:TURNRIGHT", "ACTION:FORWARD"}

\* a tourist turn that is one of the three navigation commands
IsNavTurn(msg) == msg.id = "Tourist" /\ msg.text \in NavCommands

\* a tourist turn that is free text
IsUtterance(msg) == msg.id = "Tourist" /\ msg.text \notin NavCommands

\* an element without its history annotations
StripTags(e) == [kind |-> e.kind, v |-> e.v, loc |-> e.loc]
StripAll(tr) == [j \in 1..Len(tr) |-> StripTags(tr[j])]

\* the location of the tourist after the first n turns of a dialogue
RECURSIVE LocAfter(_, _)
LocAfter(cfg, n) ==
    IF n = 0 THEN cfg.start_location
    ELSE LET msg == cfg.dialog[n]
             before == LocAfter(cfg, n - 1)
         IN  IF IsNavTurn(msg)
             THEN step_aware(get_action(msg.text), before, Boundaries)
             ELSE before

\* the last turn before turn t of a dialogue that is an utterance, 0 when none is
PrevUtterance(dialog, t) ==
    CHOOSE u \in 0..(t - 1) :
        /\ (u = 0 \/ IsUtterance(dialog[u]))
        /\ \A w \in (u + 1)..(t - 1) : ~IsUtterance(dialog[w])

\* the dialogue being read has at least one turn
ReadingATurn == lpc = "build" /\ Len(dataset) > 0 /\ Len(dataset[Len(dataset)].dialog) > 0
LastTurn == dataset[Len(dataset)].dialog[Len(dataset[Len(dataset)].dialog)]

\* C4: after a navigation command the location is the movement function's, the
\* action token is in the window, and an observation bundle of the new location
\* follows it if and only if the command is ACTION:FORWARD (stated for windows
\* that hold at least two elements).
C4_ObservationIffForward ==
    (ReadingATurn /\ IsNavTurn(LastTurn) /\ (contextlen = NoneLen \/ contextlen >= 2))
    => LET d == Len(dataset)
           t == Len(dataset[d].dialog)
           w == act_obs_memory
           n == Len(w)
           token == IntElem(get_action(LastTurn.text), d, t)
       IN  /\ loc = LocAfter(dataset[d], t)
           /\ IF LastTurn.text = "ACTION:FORWARD"
              THEN n >= 2 /\ w[n] = ObsElem(loc, d, t) /\ w[n - 1] = token
              ELSE n >= 1 /\ w[n] = token

\* C5: the four arrays a call returns, and the four it saves, have the same
\* length, and entry i of the landmark array is the landmark set of the location
\* of Example i.
C5_ArraysAligned ==
    /\ lpc = "done"
          => /\ Len(ret[1]) = Len(ret[2])
             /\ Len(ret[1]) = Len(ret[3])
             /\ Len(ret[1]) = Len(ret[4])
             /\ \A i \in 1..Len(ret[3]) : i <= Len(ret[2]) => ret[3][i] = ret[2][i]
    /\ (cache_exists /\ CacheComplete)
          => /\ Len(cache_files[1]) = Len(cache_files[2])
             /\ Len(cache_files[1]) = Len(cache_files[3])
             /\ Len(cache_files[1]) = Len(cache_files[4])

\* every trajectory the split holds: being built, returned, or saved
Trajectories ==
    {Xs[i] : i \in 1..Len(Xs)}
        \cup (IF lpc = "done" THEN {ret[1][i] : i \in 1..Len(ret[1])} ELSE {})
        \cup (IF cache_exists /\ Len(cache_files) >= 1
              THEN {cache_files[1][i] : i \in 1..Len(cache_files[1])}
              ELSE {})

\* C6: with a context length k >= 0 every trajectory has at most k elements
\* and then the end marker; the end marker is always last and occurs only there.
C6_ContextWindowBound ==
    \A tr \in Trajectories :
        /\ Len(tr) >= 1
        /\ tr[Len(tr)] = EndElem
        /\ \A j \in 1..(Len(tr) - 1) :
              tr[j].kind = "obs" \/ (tr[j].kind = "int" /\ tr[j].v \in 1..NumActions)
        /\ args_num_steps >= 0 => Len(tr) <= args_num_steps + 1

\* a window of one element that dropped the action of the turn before the utterance
C6_Witness ==
    /\ lpc = "done"
    /\ args_num_steps = 1
    /\ \E i \in 1..Len(emitted_at) :
          LET d == emitted_at[i][1]
              t == emitted_at[i][2]
          IN  /\ t >= 2
              /\ IsNavTurn(dataset[d].dialog[t - 1])
              /\ Len(ret[1]) >= i
              /\ Len(ret[1][i]) = 2
              /\ ret[1][i][1].kind = "obs"

\* C7: emitting an Example leaves the window empty, and every trajectory holds,
\* in their order, only actions and observations of its own dialogue that come
\* after the previous utterance of that dialogue, then the end marker.
C7_ClearOnUtterance ==
    /\ (ReadingATurn /\ IsUtterance(LastTurn)) => act_obs_memory = <<>>
    /\ Len(Xs) = Len(emitted_at)
    /\ \A i \in 1..Len(Xs) :
          LET d == emitted_at[i][1]
              t == emitted_at[i][2]
              tr == Xs[i]
              dialog == dataset[d].dialog
              prev == PrevUtterance(dialog, t)
          IN  /\ tr[Len(tr)] = EndElem
              /\ \A j \in 1..(Len(tr) - 1) :
                    /\ tr[j].dlg = d
                    /\ prev < tr[j].turn /\ tr[j].turn <= t
                    /\ tr[j].kind = "int"
                          => /\ IsNavTurn(dialog[tr[j].turn])
                             /\ tr[j].v = get_action(dialog[tr[j].turn].text)
                    /\ tr[j].kind = "obs"
                          => tr[j].loc = LocAfter(dataset[d], tr[j].turn)
                    /\ j > 1 => \/ tr[j - 1].turn < tr[j].turn
                                \/ /\ tr[j - 1].turn = tr[j].turn
                                   /\ tr[j - 1].kind = "int"
                                   /\ tr[j].kind = "obs"

\* two Examples of one dialogue: the second trajectory restarts after the first
C7_Witness ==
    /\ lpc = "build"
    /\ contextlen = NoneLen
    /\ Len(Xs) = 2
    /\ emitted_at[1][1] = emitted_at[2][1]
    /\ Len(Xs[1]) = 3
    /\ Len(Xs[2]) = 2
    /\ act_obs_memory = <<>>

\* the dialogue has exactly one utterance, and no navigation command before it
OneUtteranceNoActionBefore(dialog) ==
    \E u \in 1..Len(dialog) :
        /\ IsUtterance(dialog[u])
        /\ \A w \in 1..Len(dialog) : w /= u => ~IsUtterance(dialog[w])
        /\ \A w \in 1..(u - 1) : ~IsNavTurn(dialog[w])

\* the Examples dialogue d of the dataset produced
ExamplesOf(d) == {i \in 1..Len(emitted_at) : emitted_at[i][1] = d}

\* the one Example of dialogue d has trajectory tr and the encoded utterance as target
OneExampleWith(d, tr) ==
    /\ Cardinality(ExamplesOf(d)) = 1
    /\ \A i \in ExamplesOf(d) :
          /\ StripAll(ret[1][i]) = tr
          /\ ret[4][i] = encode(dataset[d].dialog[emitted_at[i][2]].text)
          /\ ret[4][i][Len(ret[4][i])] = DictEnd

\* C8 as stated: for every context length, such a dialogue yields one Example
\* whose trajectory is [observation of the start location, end marker].
C8_FirstUtteranceAnyWindow ==
    lpc = "done" =>
        \A d \in 1..Len(dataset) :
            OneUtteranceNoActionBefore(dataset[d].dialog)
                => OneExampleWith(d, <<StripTags(ObsElem(dataset[d].start_location, 0, 0)),
                                       StripTags(EndElem)>>)

\* C8: a dialogue with exactly one utterance and no action before it yields
\* exactly one Example, whose target is the encoded utterance with the end token
\* and whose trajectory is [observation of the start location, end marker] for
\* every context length but 0, and [end marker] alone for context length 0.
C8_FirstUtterance ==
    lpc = "done" =>
        \A d \in 1..Len(dataset) :
            OneUtteranceNoActionBefore(dataset[d].dialog)
                => OneExampleWith(d,
                       IF contextlen = 0
                       THEN <<StripTags(EndElem)>>
                       ELSE <<StripTags(ObsElem(dataset[d].start_location, 0, 0)),
                              StripTags(EndElem)>>)

\* the second dialogue is a lone utterance, after a first dialogue that moved
C8_Witness ==
    /\ lpc = "done"
    /\ contextlen /= 0
    /\ Len(dataset) = 2
    /\ Len(dataset[1].dialog) = 1
    /\ IsNavTurn(dataset[1].dialog[1])
    /\ Len(dataset[2].dialog) = 1
    /\ OneUtteranceNoActionBefore(dataset[2].dialog)
    /\ Cardinality(ExamplesOf(2)) = 1

\* C15: a call that returns a loaded cache loads one that a run with the same
\* enabled feature sources wrote, and the observation bundles it returns hold
\* the features of exactly those sources.
C15_CacheKeyedByFeatures ==
    (lpc = "done" /\ from_cache) =>
        /\ cache_features = feature_loaders
        /\ \A i \in 1..Len(ret[1]) :
              \A j \in 1..Len(ret[1][i]) :
                  ret[1][i][j].kind = "obs" => ret[1][i][j].feats = feature_loaders

\* C16: between the state after a call without temp_build that found no cache
\* and the state after the next call, also without temp_build: the first call
\* built, saved and returned the arrays; the second loaded them, built and
\* wrote nothing, left the files as they were and returned what the first call
\* returned.
C16_CacheRoundTrip ==
    [][(/\ lpc = "done" /\ ~from_cache /\ ~temp_build
        /\ ~temp_build')
       => /\ cache_exists
          /\ Len(cache_files) = Len(SavedNames)
          /\ lpc' = "done"
          /\ from_cache'
          /\ Xs' = <<>> /\ tourist_locs' = <<>> /\ landmarks' = <<>> /\ ys' = <<>>
          /\ n_read' = n_read
          /\ cache_exists'
          /\ cache_files' = cache_files
          /\ ret' = ret]_vars

\* C19: a tourist turn whose text is none of the three commands leaves the
\* location as it was, emits exactly one Example, whose target is the encoded
\* text, and leaves the window empty.
C19_UnrecognizedIsUtterance ==
    [][\A msg \in Msgs :
          (ProcessMsg(msg) /\ msg.id = "Tourist" /\ msg.text \notin NavCommands)
              => /\ lpc' = "build"
                 /\ loc' = loc
                 /\ Len(Xs') = Len(Xs) + 1
                 /\ Len(ys') = Len(ys) + 1
                 /\ Len(tourist_locs') = Len(tourist_locs) + 1
                 /\ ys'[Len(ys')] = encode(msg.text)
                 /\ SubSeq(Xs', 1, Len(Xs)) = Xs
                 /\ act_obs_memory' = <<>>]_vars

\* an ACTION:BACKWARD turn, after a turn that moved, has emitted an Example
C19_Witness ==
    /\ ReadingATurn
    /\ LastTurn = [id |-> "Tourist", text |-> "ACTION:BACKWARD"]
    /\ Len(dataset[Len(dataset)].dialog) >= 2
    /\ IsNavTurn(dataset[Len(dataset)].dialog[Len(dataset[Len(dataset)].dialog) - 1])
    /\ Len(Xs) >= 1
    /\ emitted_at[Len(emitted_at)] = <<Len(dataset), Len(dataset[Len(dataset)].dialog)>>
    /\ act_obs_memory = <<>>
    /\ loc /= dataset[Len(dataset)].start_location

\* C23: whatever build was cut short while it saved, no call finds a cache
\* directory in which a file is missing or holds part of its text, and a call
\* that loads returns the four arrays of one whole save.
C23_CacheCompleteUnderInterruption ==
    /\ lpc /= "failed"
    /\ (lpc = "done" /\ from_cache)
          => (CacheComplete /\ ret = LoadFiles(cache_files))

(***************************************************************************)
(* Properties of create_batch()                                            *)
(***************************************************************************)

\* the number of entries of s equal to x
CountOf(s, x) == Cardinality({i \in 1..Len(s) : s[i] = x})

\* C9: in the returned source grid every cell past the source length of the
\* row's example holds the pad index L + A, and every cell before it holds the
\* example's element.
C9_SourcePadding ==
    bpc = "done" =>
        \A r \in 1..Len(sorted_X_batch) :
            LET src == in_Xs[sorted_indices[r]]
            IN  \A j \in 1..Len(sorted_X_batch[r]) :
                    IF j <= Len(src)
                    THEN sorted_X_batch[r][j] = src[j]
                    ELSE sorted_X_batch[r][j] = IntElem(NumLandmarks + NumActions, 0, 0)

\* C10: the sort indices are a bijection over the rows of the batch, every
\* input example is in exactly one output row, and the returned source lengths
\* are non-increasing and a rearrangement of the input source lengths.
C10_SortPermutation ==
    bpc = "done" =>
        LET N == Len(in_Xs)
        IN  /\ DOMAIN sorted_indices = 1..N
            /\ \A i \in 1..N : sorted_indices[i] \in 1..N
            /\ \A e \in 1..N : Cardinality({r \in 1..N : sorted_indices[r] = e}) = 1
            /\ Len(sorted_tourist_loc_batch) = N
            /\ \A e \in 1..N :
                  Cardinality({r \in 1..N : sorted_tourist_loc_batch[r] = in_tourist_locs[e]}) = 1
            /\ Len(ret_seq_lens) = N
            /\ \A r \in 1..(N - 1) : ret_seq_lens[r] >= ret_seq_lens[r + 1]
            /\ \A l \in 1..(MaxSrcLen + 1) :
                  CountOf(ret_seq_lens, l) = Cardinality({e \in 1..N : Len(in_Xs[e]) = l})

\* a batch the sort reorders: its first example is shorter than a later one
C10_Witness ==
    /\ bpc = "done"
    /\ Len(in_Xs) >= 3
    /\ Len(in_Xs[1]) < Len(in_Xs[2])
    /\ Len(in_Xs[2]) = Len(in_Xs[3])
    /\ sorted_indices[1] /= 1

\* the sum of a row of the mask
RECURSIVE SumOf(_)
SumOf(s) == IF s = <<>> THEN 0 ELSE Head(s) + SumOf(Tail(s))

\* the input example output row r is made of
SourceOf(r) == sorted_indices[r]

\* C11: every output row r holds, in the source grid, the target grid, the
\* location array and the mask, the data of one input example, the one
\* sorted_indices selects for r, and the r-th returned source length is that
\* example's source length.
C11_UniformPermutation ==
    bpc = "done" =>
        \A r \in 1..Len(in_Xs) :
            LET e == SourceOf(r)
            IN  /\ SubSeq(sorted_X_batch[r], 1, Len(in_Xs[e])) = in_Xs[e]
                /\ SubSeq(sorted_y_batch[r], 1, Len(in_ys[e])) = in_ys[e]
                /\ sorted_tourist_loc_batch[r] = in_tourist_locs[e]
                /\ SumOf(sorted_mask[r]) = Len(in_Xs[e])
                /\ ret_seq_lens[r] = Len(in_Xs[e])

\* the sort moved every row of a batch of three
C11_Witness ==
    /\ bpc = "done"
    /\ Len(in_Xs) = 3
    /\ \A r \in 1..3 : sorted_indices[r] /= r
    /\ Len(in_Xs[1]) < Len(in_Xs[3])

\* C12: of two input examples with the same source length, the one that is
\* first in the input is first in the output.
C12_StableSort ==
    bpc = "done" =>
        \A r1, r2 \in 1..Len(in_Xs) :
            (r1 < r2 /\ Len(in_Xs[sorted_indices[r1]]) = Len(in_Xs[sorted_indices[r2]]))
                => sorted_indices[r1] < sorted_indices[r2]

\* C13: the source grid and the mask are N x maxSourceLen, the target grid is
\* N x maxTargetLen, and each mask row is 1 below the source length of the
\* row's example and 0 from there on, so its sum is that length.
C13_ShapesAndMask ==
    bpc = "done" =>
        LET N == Len(in_Xs)
            maxSrc == MaxOf([i \in 1..N |-> Len(in_Xs[i])])
            maxTrg == MaxOf([i \in 1..N |-> Len(in_ys[i])])
        IN  /\ Len(sorted_X_batch) = N
            /\ Len(sorted_mask) = N
            /\ Len(sorted_y_batch) = N
            /\ max_y_len = maxTrg
            /\ \A r \in 1..N :
                  /\ Len(sorted_X_batch[r]) = maxSrc
                  /\ Len(sorted_mask[r]) = maxSrc
                  /\ Len(sorted_y_batch[r]) = maxTrg
                  /\ \A j \in 1..maxSrc :
                        sorted_mask[r][j] = IF j <= Len(in_Xs[SourceOf(r)]) THEN 1 ELSE 0
                  /\ SumOf(sorted_mask[r]) = Len(in_Xs[SourceOf(r)])

\* a batch with a padded row that the sort moved
C13_Witness ==
    /\ bpc = "done"
    /\ Len(in_Xs) >= 2
    /\ sorted_indices[1] /= 1
    /\ \E r \in 1..Len(in_Xs) :
          /\ SumOf(sorted_mask[r]) < Len(sorted_mask[r])
          /\ SumOf(sorted_mask[r]) >= 1
    /\ \E r \in 1..Len(in_ys) : Len(in_ys[r]) < max_y_len

\* C14: entry i of the returned target lengths is the target length of the
\* i-th input example, in the order of the input, whatever the sort did.
C14_TargetLensByPosition ==
    bpc = "done" =>
        /\ Len(sorted_y_lens) = Len(in_ys)
        /\ \A i \in 1..Len(in_ys) : sorted_y_lens[i] = Len(in_ys[i])

\* the sort moved rows, and an entry is not the length of the target in its row
C14_Witness ==
    /\ bpc = "done"
    /\ \E r \in 1..Len(in_ys) :
          /\ sorted_indices[r] /= r
          /\ sorted_y_lens[r] /= Len(in_ys[sorted_indices[r]])
          /\ sorted_y_lens[r] = Len(in_ys[r])

(***************************************************************************)
(* Properties of ActionObservationDictionary                               *)
(***************************************************************************)

\* C17: for L landmarks and A actions the dictionary has pad = L + A,
\* start = pad + 1, end = pad + 2, unknown = pad + 3: four distinct, contiguous
\* indices outside 0..(L + A - 1); tok2i maps each special token to its index;
\* L = 11 and A = 3 give 14, 15, 16, 17.
C17_VocabularyLayout ==
    vpc = "built" =>
        LET L == Len(arg_landmarks)
            A == Len(arg_actions)
            special == {self_pad_idx, self_start_idx, self_end_idx, self_unk_idx}
        IN  /\ self_pad_idx = L + A
            /\ self_start_idx = self_pad_idx + 1
            /\ self_end_idx = self_pad_idx + 2
            /\ self_unk_idx = self_pad_idx + 3
            /\ Cardinality(special) = 4
            /\ special = (L + A)..(L + A + 3)
            /\ special \cap (0..(L + A - 1)) = {}
            /\ DOMAIN tok2i = SpecialTokens
            /\ tok2i["PAD_TOKEN"] = self_pad_idx
            /\ tok2i["START_TOKEN"] = self_start_idx
            /\ tok2i["END_TOKEN"] = self_end_idx
            /\ tok2i["UNK_TOKEN"] = self_unk_idx
            /\ (L = 11 /\ A = 3) =>
                  <<self_pad_idx, self_start_idx, self_end_idx, self_unk_idx>>
                      = <<14, 15, 16, 17>>

\* the dictionary of 11 landmarks and 3 actions
C17_Witness ==
    /\ vpc = "built"
    /\ Len(arg_landmarks) = 11
    /\ Len(arg_actions) = 3
    /\ tok2i["UNK_TOKEN"] = 17

\* C18: no dictionary is built from an empty landmark list or an empty action list.
C18_EmptyVocabularyFails ==
    vpc = "built" => (Len(arg_landmarks) > 0 /\ Len(arg_actions) > 0)

====
